---- MODULE Spec2Model ----
(***************************************************************************)
(* Persistent binary search trees (TypeScript, OCaml, Haskell, Java,       *)
(* Kotlin, Swift variants) and the bounded string stacks (C and C++).      *)
(*                                                                         *)
(* The TypeScript tree is modelled on a heap of objects, because its       *)
(* persistence is a statement about objects that are never written after   *)
(* construction.  The other variants are immutable values of their         *)
(* languages and are modelled as values.                                   *)
(***************************************************************************)
EXTENDS Integers, Sequences, FiniteSets, TLC

VARIABLES
    heap,       \* TypeScript: the objects allocated so far, a reference is an index
    ts,         \* TypeScript: the tree versions the caller holds (references)
    ml,         \* OCaml: the tree versions the caller holds (values)
    hs,         \* Haskell: the tree versions
    java,       \* Java: the tree versions
    kt,         \* Kotlin: the tree versions
    swift,      \* Swift: the tree versions
    hist,       \* ghost: hist[i] is the sequence of values inserted to build version i
    parent,     \* ghost: parent[i] is the version that version i was derived from (0: none)
    c_elements, \* C: the buffer s->elements, one slot per unit of capacity
    c_top,      \* C: s->top
    c_capacity, \* C: s->capacity
    c_log,      \* ghost: the calls made on the C stack, each with what it returned
    cpp_elements,   \* C++: the buffer, one slot per unit of capacity
    cpp_capacity,   \* C++: capacity
    cpp_top,        \* C++: top
    cpp_ret,        \* C++: the outcome of the last call
    cpp_shadow,     \* ghost: the items pushed and not yet popped, oldest first
    cpp_reallocated,    \* ghost: whether the last call went through reallocate
    cpp_previous,   \* ghost: whether the call before the last went through reallocate
    cpp_expected,   \* ghost: the newest item not yet popped when pop was last called
    fta_items,      \* firstThenApply: the items of the last call
    fta_predicate,  \* firstThenApply: the predicate of the last call, per value
    fta_result,     \* firstThenApply: what the last call returned
    waiter,         \* Go: the buffered channel of orders, oldest first
    orderCounter,   \* Go: the atomic counter of order ids
    customer_pc,    \* Go: where each customer goroutine is
    mealsEaten,     \* Go: mealsEaten of each customer
    order,          \* Go: the order of each customer's current iteration
    cooking,        \* Go: the order each cook holds (its local order), or none
    wg,             \* Go: the counter of the WaitGroup
    main_pc,        \* Go: where main is
    issued,         \* ghost: the ids orderCounter.Add has returned, in order of the calls
    abandoned,      \* ghost: the ids of the orders abandoned after a timeout
    change_amount,  \* change: the amount of the last call
    change_results  \* change: what the call returned in each language, once called

treeVars == <<heap, ts, ml, hs, java, kt, swift, hist, parent>>
cVars == <<c_elements, c_top, c_capacity, c_log>>
cppVars == <<cpp_elements, cpp_capacity, cpp_top, cpp_ret, cpp_shadow, cpp_reallocated,
            cpp_previous, cpp_expected>>
ftaVars == <<fta_items, fta_predicate, fta_result>>
goVars == <<waiter, orderCounter, customer_pc, mealsEaten, order, cooking, wg,
           main_pc, issued, abandoned>>
changeVars == <<change_amount, change_results>>
vars == <<heap, ts, ml, hs, java, kt, swift, hist, parent,
          c_elements, c_top, c_capacity, c_log,
          cpp_elements, cpp_capacity, cpp_top, cpp_ret, cpp_shadow, cpp_reallocated,
          cpp_previous, cpp_expected, fta_items, fta_predicate, fta_result,
          waiter, orderCounter, customer_pc, mealsEaten, order, cooking, wg,
          main_pc, issued, abandoned, change_amount, change_results>>

----------------------------------------------------------------------------
(* Bounds and the element type.                                            *)

\* The number of tree versions a behaviour builds (the empty tree included).
MaxVersions == 5

\* The element type: strings under their natural order.  A value is the index
\* of its string in Letters, which is in ascending order, so that comparing
\* two indices is comparing the two strings.
Letters == <<"a", "m", "s", "z">>
Values == 1..Len(Letters)
Name(v) == Letters[v]

ValA == CHOOSE v \in Values : Name(v) = "a"
ValM == CHOOSE v \in Values : Name(v) = "m"
ValZ == CHOOSE v \in Values : Name(v) = "z"

RECURSIVE SeqToSet(_)
SeqToSet(s) == IF s = <<>> THEN {} ELSE {Head(s)} \cup SeqToSet(Tail(s))

Last(s) == s[Len(s)]

Distinct(s) == \A i, j \in 1..Len(s) : i # j => s[i] # s[j]

\* The ascending enumeration of a set of values.
RECURSIVE Ascending(_)
Ascending(S) ==
    IF S = {} THEN <<>>
    ELSE LET m == CHOOSE x \in S : \A y \in S : x <= y
         IN  <<m>> \o Ascending(S \ {m})

StrictlyAscending(s) == \A i \in 1..(Len(s) - 1) : s[i] < s[i + 1]

----------------------------------------------------------------------------
(* TypeScript: class Empty<T> and class Node<T> on a heap.                 *)

EmptyCell == [kind |-> "Empty"]
NodeCell(value, left, right) ==
    [kind |-> "Node", value |-> value, left |-> left, right |-> right]

ts_isEmpty(h, r) == h[r].kind = "Empty"

RECURSIVE ts_size(_, _)
ts_size(h, r) ==
    IF ts_isEmpty(h, r) THEN 0
    ELSE 1 + ts_size(h, h[r].left) + ts_size(h, h[r].right)

\* A wrong contains that descends to the right for a smaller value.
RECURSIVE ts_contains_swapped(_, _, _)
ts_contains_swapped(h, r, value) ==
    IF ts_isEmpty(h, r) THEN FALSE
    ELSE IF value = h[r].value THEN TRUE
    ELSE IF value < h[r].value THEN ts_contains_swapped(h, h[r].right, value)
    ELSE ts_contains_swapped(h, h[r].left, value)

RECURSIVE ts_contains(_, _, _)
ts_contains(h, r, value) ==
    IF ts_isEmpty(h, r) THEN FALSE
    ELSE IF value = h[r].value THEN TRUE
    ELSE IF value < h[r].value THEN ts_contains(h, h[r].left, value)
    ELSE ts_contains(h, h[r].right, value)

RECURSIVE ts_inorder(_, _)
ts_inorder(h, r) ==
    IF ts_isEmpty(h, r) THEN <<>>
    ELSE ts_inorder(h, h[r].left) \o <<h[r].value>> \o ts_inorder(h, h[r].right)

\* A wrong toString that renders Empty children as "()".
RECURSIVE ts_toString_parens(_, _)
ts_toString_parens(h, r) ==
    IF ts_isEmpty(h, r) THEN "()"
    ELSE "(" \o ts_toString_parens(h, h[r].left) \o Name(h[r].value)
             \o ts_toString_parens(h, h[r].right) \o ")"

RECURSIVE ts_toString(_, _)
ts_toString(h, r) ==
    IF ts_isEmpty(h, r) THEN "()"
    ELSE LET leftStr  == IF ts_isEmpty(h, h[r].left) THEN ""
                         ELSE ts_toString(h, h[r].left)
             rightStr == IF ts_isEmpty(h, h[r].right) THEN ""
                         ELSE ts_toString(h, h[r].right)
         IN  "(" \o leftStr \o Name(h[r].value) \o rightStr \o ")"

\* new Node(value, left, right) after its arguments have been evaluated.
ts_new(h, cell) == [heap |-> Append(h, cell), ref |-> Len(h) + 1]

\* Empty.insert: new Node(value, new Empty(), new Empty()).
ts_Empty_insert(h, value) ==
    LET e1 == ts_new(h, EmptyCell)
        e2 == ts_new(e1.heap, EmptyCell)
    IN  ts_new(e2.heap, NodeCell(value, e1.ref, e2.ref))

\* A wrong insert that links the new subtree into the existing node.
RECURSIVE ts_insert_inplace(_, _, _)
ts_insert_inplace(h, r, value) ==
    IF ts_isEmpty(h, r) THEN ts_Empty_insert(h, value)
    ELSE IF value < h[r].value THEN
        LET sub == ts_insert_inplace(h, h[r].left, value)
        IN  [heap |-> [sub.heap EXCEPT ![r].left = sub.ref], ref |-> r]
    ELSE IF value > h[r].value THEN
        LET sub == ts_insert_inplace(h, h[r].right, value)
        IN  [heap |-> [sub.heap EXCEPT ![r].right = sub.ref], ref |-> r]
    ELSE [heap |-> h, ref |-> r]

\* A copy of a whole tree in new objects.
RECURSIVE ts_copy(_, _)
ts_copy(h, r) ==
    IF ts_isEmpty(h, r) THEN ts_new(h, EmptyCell)
    ELSE LET l == ts_copy(h, h[r].left)
             rt == ts_copy(l.heap, h[r].right)
         IN  ts_new(rt.heap, NodeCell(h[r].value, l.ref, rt.ref))

\* A wrong insert that copies the subtree it does not descend into.
RECURSIVE ts_insert_deepcopy(_, _, _)
ts_insert_deepcopy(h, r, value) ==
    IF ts_isEmpty(h, r) THEN ts_Empty_insert(h, value)
    ELSE IF value < h[r].value THEN
        LET sub == ts_insert_deepcopy(h, h[r].left, value)
            other == ts_copy(sub.heap, h[r].right)
        IN  ts_new(other.heap, NodeCell(h[r].value, sub.ref, other.ref))
    ELSE IF value > h[r].value THEN
        LET sub == ts_insert_deepcopy(h, h[r].right, value)
            other == ts_copy(sub.heap, h[r].left)
        IN  ts_new(other.heap, NodeCell(h[r].value, other.ref, sub.ref))
    ELSE [heap |-> h, ref |-> r]

RECURSIVE ts_insert(_, _, _)
ts_insert(h, r, value) ==
    IF ts_isEmpty(h, r) THEN ts_Empty_insert(h, value)
    ELSE IF value < h[r].value THEN
        LET sub == ts_insert(h, h[r].left, value)
        IN  ts_new(sub.heap, NodeCell(h[r].value, sub.ref, h[r].right))
    ELSE IF value > h[r].value THEN
        LET sub == ts_insert(h, h[r].right, value)
        IN  ts_new(sub.heap, NodeCell(h[r].value, h[r].left, sub.ref))
    ELSE [heap |-> h, ref |-> r]

----------------------------------------------------------------------------
(* OCaml: type 'a binary_search_tree = Empty | Node of tree * 'a * tree.   *)
(* Empty is <<>>, Node (left, node_value, right) is <<left, v, right>>.    *)

ml_Empty == <<>>

RECURSIVE ml_size(_)
ml_size(tree) ==
    IF tree = ml_Empty THEN 0
    ELSE 1 + ml_size(tree[1]) + ml_size(tree[3])

RECURSIVE ml_contains(_, _)
ml_contains(value, tree) ==
    IF tree = ml_Empty THEN FALSE
    ELSE IF value = tree[2] THEN TRUE
    ELSE IF value < tree[2] THEN ml_contains(value, tree[1])
    ELSE ml_contains(value, tree[3])

RECURSIVE ml_inorder(_)
ml_inorder(tree) ==
    IF tree = ml_Empty THEN <<>>
    ELSE ml_inorder(tree[1]) \o <<tree[2]>> \o ml_inorder(tree[3])

\* A wrong insert without the case of an equal value.
RECURSIVE ml_insert_dup(_, _)
ml_insert_dup(value, tree) ==
    IF tree = ml_Empty THEN <<ml_Empty, value, ml_Empty>>
    ELSE IF value < tree[2] THEN <<ml_insert_dup(value, tree[1]), tree[2], tree[3]>>
    ELSE <<tree[1], tree[2], ml_insert_dup(value, tree[3])>>

RECURSIVE ml_insert(_, _)
ml_insert(value, tree) ==
    IF tree = ml_Empty THEN <<ml_Empty, value, ml_Empty>>
    ELSE IF value < tree[2] THEN <<ml_insert(value, tree[1]), tree[2], tree[3]>>
    ELSE IF value > tree[2] THEN <<tree[1], tree[2], ml_insert(value, tree[3])>>
    ELSE tree

----------------------------------------------------------------------------
(* Haskell: data BST a = Empty | Node a (BST a) (BST a).                   *)
(* Empty is <<>>, Node value left right is <<value, left, right>>.         *)

hs_Empty == <<>>

RECURSIVE hs_size(_)
hs_size(t) ==
    IF t = hs_Empty THEN 0
    ELSE 1 + hs_size(t[2]) + hs_size(t[3])

\* A wrong inorder that yields the node's value before its left subtree.
RECURSIVE hs_inorder_preorder(_)
hs_inorder_preorder(t) ==
    IF t = hs_Empty THEN <<>>
    ELSE <<t[1]>> \o hs_inorder_preorder(t[2]) \o hs_inorder_preorder(t[3])

RECURSIVE hs_inorder(_)
hs_inorder(t) ==
    IF t = hs_Empty THEN <<>>
    ELSE hs_inorder(t[2]) \o <<t[1]>> \o hs_inorder(t[3])

RECURSIVE hs_insert(_, _)
hs_insert(value, t) ==
    IF t = hs_Empty THEN <<value, hs_Empty, hs_Empty>>
    ELSE IF value < t[1] THEN <<t[1], hs_insert(value, t[2]), t[3]>>
    ELSE IF value > t[1] THEN <<t[1], t[2], hs_insert(value, t[3])>>
    ELSE <<t[1], t[2], t[3]>>

RECURSIVE hs_contains(_, _)
hs_contains(value, t) ==
    IF t = hs_Empty THEN FALSE
    ELSE IF value = t[1] THEN TRUE
    ELSE IF value < t[1] THEN hs_contains(value, t[2])
    ELSE hs_contains(value, t[3])

\* show of a String value quotes it.
hs_showValue(v) == "\"" \o Name(v) \o "\""

RECURSIVE hs_show(_)
hs_show(t) ==
    IF t = hs_Empty THEN "()"
    ELSE IF t[2] = hs_Empty /\ t[3] = hs_Empty THEN
        "(" \o hs_showValue(t[1]) \o ")"
    ELSE IF t[3] = hs_Empty THEN
        "(" \o hs_show(t[2]) \o hs_showValue(t[1]) \o ")"
    ELSE IF t[2] = hs_Empty THEN
        "(" \o hs_showValue(t[1]) \o hs_show(t[3]) \o ")"
    ELSE "(" \o hs_show(t[2]) \o hs_showValue(t[1]) \o hs_show(t[3]) \o ")"

----------------------------------------------------------------------------
(* Java: record Empty and final class Node(value, left, right).            *)
(* Empty is <<>>, a Node is <<value, left, right>>.                        *)

java_Empty == <<>>

RECURSIVE java_size(_)
java_size(t) ==
    IF t = java_Empty THEN 0
    ELSE 1 + java_size(t[2]) + java_size(t[3])

RECURSIVE java_contains(_, _)
java_contains(t, value) ==
    IF t = java_Empty THEN FALSE
    ELSE t[1] = value \/ java_contains(t[2], value) \/ java_contains(t[3], value)

RECURSIVE java_insert(_, _)
java_insert(t, value) ==
    IF t = java_Empty THEN <<value, java_Empty, java_Empty>>
    ELSE IF value < t[1] THEN <<t[1], java_insert(t[2], value), t[3]>>
    ELSE <<t[1], t[2], java_insert(t[3], value)>>

RECURSIVE java_toString(_)
java_toString(t) ==
    IF t = java_Empty THEN "()"
    ELSE LET leftStr  == IF t[2] = java_Empty THEN "" ELSE java_toString(t[2])
             rightStr == IF t[3] = java_Empty THEN "" ELSE java_toString(t[3])
         IN  "(" \o leftStr \o Name(t[1]) \o rightStr \o ")"

----------------------------------------------------------------------------
(* Kotlin: object Empty and data class Node(value, left, right).           *)

kt_Empty == <<>>

RECURSIVE kt_size(_)
kt_size(t) ==
    IF t = kt_Empty THEN 0
    ELSE 1 + kt_size(t[2]) + kt_size(t[3])

RECURSIVE kt_contains(_, _)
kt_contains(t, value) ==
    IF t = kt_Empty THEN FALSE
    ELSE IF t[1] = value THEN TRUE
    ELSE IF value < t[1] THEN kt_contains(t[2], value)
    ELSE kt_contains(t[3], value)

RECURSIVE kt_insert(_, _)
kt_insert(t, value) ==
    IF t = kt_Empty THEN <<value, kt_Empty, kt_Empty>>
    ELSE IF value < t[1] THEN <<t[1], kt_insert(t[2], value), t[3]>>
    ELSE <<t[1], t[2], kt_insert(t[3], value)>>

RECURSIVE kt_toString(_)
kt_toString(t) ==
    IF t = kt_Empty THEN "()"
    ELSE LET leftStr  == IF t[2] = kt_Empty THEN "" ELSE kt_toString(t[2])
             rightStr == IF t[3] = kt_Empty THEN "" ELSE kt_toString(t[3])
         IN  "(" \o leftStr \o Name(t[1]) \o rightStr \o ")"

----------------------------------------------------------------------------
(* Swift: enum BinarySearchTree { case empty; indirect case node(l, v, r) } *)
(* .empty is <<>>, .node(left, value, right) is <<left, value, right>>.    *)

swift_empty == <<>>

RECURSIVE swift_size(_)
swift_size(t) ==
    IF t = swift_empty THEN 0
    ELSE 1 + swift_size(t[1]) + swift_size(t[3])

RECURSIVE swift_contains(_, _)
swift_contains(t, value) ==
    IF t = swift_empty THEN FALSE
    ELSE IF value < t[2] THEN swift_contains(t[1], value)
    ELSE IF value > t[2] THEN swift_contains(t[3], value)
    ELSE TRUE

\* A wrong insert that sends an equal value to the left subtree.
RECURSIVE swift_insert_dup(_, _)
swift_insert_dup(t, value) ==
    IF t = swift_empty THEN <<swift_empty, value, swift_empty>>
    ELSE IF value <= t[2] THEN <<swift_insert_dup(t[1], value), t[2], t[3]>>
    ELSE <<t[1], t[2], swift_insert_dup(t[3], value)>>

RECURSIVE swift_insert(_, _)
swift_insert(t, value) ==
    IF t = swift_empty THEN <<swift_empty, value, swift_empty>>
    ELSE IF value < t[2] THEN <<swift_insert(t[1], value), t[2], t[3]>>
    ELSE IF value > t[2] THEN <<t[1], t[2], swift_insert(t[3], value)>>
    ELSE t

\* "(\(left)\(value)\(right))": the interpolation of a child is its description.
RECURSIVE swift_description(_)
swift_description(t) ==
    IF t = swift_empty THEN "()"
    ELSE "(" \o swift_description(t[1]) \o Name(t[2]) \o swift_description(t[3]) \o ")"

----------------------------------------------------------------------------
(* The stacks' constants and items.                                        *)

INITIAL_CAPACITY == 16
MAX_CAPACITY == 32768

\* The number of calls a behaviour makes on the C stack.
MaxCalls == 4

\* The deepest C++ stack a behaviour builds: one more than INITIAL_CAPACITY,
\* so that the buffer grows and, on the way down, shrinks again.
MaxDepth == 17

\* The strings (C) and items (C++) pushed.
Items == {1, 2}

\* C only: a string of MAX_ELEMENT_BYTE_SIZE bytes or more (the limit is set in
\* string_stack.h), and all the strings a caller passes to push.
LongItems == {3}
CItems == Items \cup LongItems

Min(a, b) == IF a < b THEN a ELSE b
Max(a, b) == IF a > b THEN a ELSE b

----------------------------------------------------------------------------
(* C: struct _Stack { char** elements; int top; int capacity; }.           *)
(* elements[i] of the code is c_elements[i + 1].                           *)

ResponseCodes ==
    {"success", "stack_full", "stack_empty", "stack_element_too_large", "out_of_memory"}

\* A slot of the buffer that malloc or realloc handed out and nothing wrote.
Uninitialized == 0
NULL == -1

\* The values a read of slot i (counted from 0) of the buffer can give: what
\* was stored there, or anything when the slot was never written or lies
\* outside the buffer.
c_read(elements, i) ==
    IF i + 1 \in DOMAIN elements /\ elements[i + 1] # Uninitialized
    THEN {elements[i + 1]}
    ELSE CItems \cup {NULL}

\* realloc(elements, n * sizeof(char* )): the first slots are kept.
c_realloc(elements, n) ==
    [i \in 1..n |-> IF i \in DOMAIN elements THEN elements[i] ELSE Uninitialized]

c_size == c_top
c_is_empty == c_top = 0
c_is_full == c_top = MAX_CAPACITY

\* A wrong create that leaves capacity at 0.
CInit_nocapacity ==
    /\ c_top = 0
    /\ c_capacity = 0
    /\ c_elements = [i \in 1..INITIAL_CAPACITY |-> Uninitialized]
    /\ c_log = <<>>

CInit ==
    /\ c_top = 0
    /\ c_capacity = INITIAL_CAPACITY
    /\ c_elements = [i \in 1..INITIAL_CAPACITY |-> Uninitialized]
    /\ c_log = <<>>

\* push(s, item).  The store and the return of success are inside the branch
\* that grows the buffer; on the other path control reaches the end of the
\* function and the value the caller reads is indeterminate.
c_push(item) ==
    /\ Len(c_log) < MaxCalls
    /\ IF c_is_full THEN
           /\ c_log' = Append(c_log, [op |-> "push", item |-> item, code |-> "stack_full"])
           /\ UNCHANGED <<c_elements, c_top, c_capacity>>
       ELSE IF c_top = c_capacity THEN
           LET new_capacity == Min(c_capacity * 2, MAX_CAPACITY)
           IN  \/ /\ c_log' = Append(c_log, [op |-> "push", item |-> item,
                                              code |-> "out_of_memory"])
                  /\ UNCHANGED <<c_elements, c_top, c_capacity>>
               \/ /\ c_elements' =
                        [c_realloc(c_elements, new_capacity) EXCEPT ![c_top + 1] = item]
                  /\ c_capacity' = new_capacity
                  /\ c_top' = c_top + 1
                  /\ c_log' = Append(c_log, [op |-> "push", item |-> item,
                                              code |-> "success"])
       ELSE
           /\ \E code \in ResponseCodes :
                  c_log' = Append(c_log, [op |-> "push", item |-> item, code |-> code])
           /\ UNCHANGED <<c_elements, c_top, c_capacity>>

\* A wrong pop without the test for an empty stack.
c_pop_unchecked ==
    /\ Len(c_log) < MaxCalls
    /\ LET new_capacity == Max(c_capacity \div 2, 1)
       IN  /\ c_top' = c_top - 1
           /\ \E popped \in c_read(c_elements, c_top - 1) :
                 /\ c_elements' = c_realloc(c_elements, new_capacity)
                 /\ c_capacity' = new_capacity
                 /\ c_log' = Append(c_log, [op |-> "pop", code |-> "success",
                                            string |-> popped])

\* pop(s).  The buffer is halved on every pop of a non-empty stack.
c_pop ==
    /\ Len(c_log) < MaxCalls
    /\ IF c_is_empty THEN
           /\ c_log' = Append(c_log, [op |-> "pop", code |-> "stack_empty", string |-> NULL])
           /\ UNCHANGED <<c_elements, c_top, c_capacity>>
       ELSE
           LET new_capacity == Max(c_capacity \div 2, 1)
           IN  /\ c_top' = c_top - 1
               /\ \E popped \in c_read(c_elements, c_top - 1) :
                     \/ /\ c_log' = Append(c_log, [op |-> "pop", code |-> "out_of_memory",
                                                    string |-> NULL])
                        /\ UNCHANGED <<c_elements, c_capacity>>
                     \/ /\ c_elements' = c_realloc(c_elements, new_capacity)
                        /\ c_capacity' = new_capacity
                        /\ c_log' = Append(c_log, [op |-> "pop", code |-> "success",
                                                    string |-> popped])

CPush == (\E item \in CItems : c_push(item)) /\ UNCHANGED <<treeVars, cppVars, ftaVars, goVars, changeVars>>
CPop == c_pop /\ UNCHANGED <<treeVars, cppVars, ftaVars, goVars, changeVars>>

----------------------------------------------------------------------------
(* C++: template <typename T> class Stack.                                 *)
(* elements[i] of the code is cpp_elements[i + 1]; T() is 0.               *)

T_default == 0

\* make_unique<T[]>(n): n value-initialized elements.
make_unique(n) == [i \in 1..n |-> T_default]

cpp_size == cpp_top
cpp_is_empty == cpp_top = 0
cpp_is_full == cpp_top = cpp_capacity

\* A wrong reallocate that copies one element too few.
cpp_reallocate_short(elements, top, new_capacity) ==
    LET capacity == Max(INITIAL_CAPACITY, Min(new_capacity, MAX_CAPACITY))
    IN  [elements |-> [i \in 1..capacity |->
                          IF i <= top - 1 THEN elements[i] ELSE T_default],
         capacity |-> capacity]

\* reallocate(new_capacity): the new buffer and the new capacity.
cpp_reallocate(elements, top, new_capacity) ==
    LET capacity == Max(INITIAL_CAPACITY, Min(new_capacity, MAX_CAPACITY))
    IN  [elements |-> [i \in 1..capacity |->
                          IF i <= top THEN elements[i] ELSE T_default],
         capacity |-> capacity]

CppInit ==
    /\ cpp_top = 0
    /\ cpp_capacity = INITIAL_CAPACITY
    /\ cpp_elements = make_unique(INITIAL_CAPACITY)
    /\ cpp_ret = [op |-> "Stack"]
    /\ cpp_shadow = <<>>
    /\ cpp_reallocated = FALSE
    /\ cpp_previous = FALSE
    /\ cpp_expected = T_default

\* A wrong push that never grows the buffer.
cpp_push_nogrow(item) ==
    IF cpp_top = MAX_CAPACITY THEN
        /\ cpp_ret' = [op |-> "push", throws |-> "overflow_error"]
        /\ cpp_reallocated' = FALSE
        /\ UNCHANGED <<cpp_elements, cpp_capacity, cpp_top, cpp_shadow, cpp_expected>>
    ELSE
        /\ cpp_elements' = [cpp_elements EXCEPT ![cpp_top + 1] = item]
        /\ cpp_top' = cpp_top + 1
        /\ cpp_ret' = [op |-> "push", throws |-> "nothing"]
        /\ cpp_shadow' = Append(cpp_shadow, item)
        /\ cpp_reallocated' = FALSE
        /\ UNCHANGED <<cpp_capacity, cpp_expected>>

\* A wrong push that grows the buffer one item before it is full.
cpp_push_eager(item) ==
    IF cpp_top = MAX_CAPACITY THEN
        /\ cpp_ret' = [op |-> "push", throws |-> "overflow_error"]
        /\ cpp_reallocated' = FALSE
        /\ UNCHANGED <<cpp_elements, cpp_capacity, cpp_top, cpp_shadow, cpp_expected>>
    ELSE
        LET grown == IF cpp_top + 1 >= cpp_capacity
                     THEN cpp_reallocate(cpp_elements, cpp_top, 2 * cpp_capacity)
                     ELSE [elements |-> cpp_elements, capacity |-> cpp_capacity]
        IN  /\ cpp_elements' = [grown.elements EXCEPT ![cpp_top + 1] = item]
            /\ cpp_capacity' = grown.capacity
            /\ cpp_top' = cpp_top + 1
            /\ cpp_ret' = [op |-> "push", throws |-> "nothing"]
            /\ cpp_shadow' = Append(cpp_shadow, item)
            /\ cpp_reallocated' = (cpp_top + 1 >= cpp_capacity)
            /\ UNCHANGED cpp_expected

cpp_push(item) ==
    IF cpp_top = MAX_CAPACITY THEN
        /\ cpp_ret' = [op |-> "push", throws |-> "overflow_error"]
        /\ cpp_reallocated' = FALSE
        /\ UNCHANGED <<cpp_elements, cpp_capacity, cpp_top, cpp_shadow, cpp_expected>>
    ELSE
        LET grown == IF cpp_top = cpp_capacity
                     THEN cpp_reallocate(cpp_elements, cpp_top, 2 * cpp_capacity)
                     ELSE [elements |-> cpp_elements, capacity |-> cpp_capacity]
        IN  /\ cpp_elements' = [grown.elements EXCEPT ![cpp_top + 1] = item]
            /\ cpp_capacity' = grown.capacity
            /\ cpp_top' = cpp_top + 1
            /\ cpp_ret' = [op |-> "push", throws |-> "nothing"]
            /\ cpp_shadow' = Append(cpp_shadow, item)
            /\ cpp_reallocated' = (cpp_top = cpp_capacity)
            /\ UNCHANGED cpp_expected

\* A wrong pop that shrinks the buffer as soon as it is half empty.
cpp_pop_eager ==
    IF cpp_is_empty THEN
        /\ cpp_ret' = [op |-> "pop", throws |-> "underflow_error"]
        /\ cpp_reallocated' = FALSE
        /\ UNCHANGED <<cpp_elements, cpp_capacity, cpp_top, cpp_shadow, cpp_expected>>
    ELSE
        LET popped_value == cpp_elements[cpp_top]
            top == cpp_top - 1
            cleared == [cpp_elements EXCEPT ![top + 1] = T_default]
            shrinks == top <= cpp_capacity \div 2
                          /\ cpp_capacity \div 2 >= INITIAL_CAPACITY
            shrunk == IF shrinks
                      THEN cpp_reallocate(cleared, top,
                                          Max(cpp_capacity \div 2, INITIAL_CAPACITY))
                      ELSE [elements |-> cleared, capacity |-> cpp_capacity]
        IN  /\ cpp_top' = top
            /\ cpp_elements' = shrunk.elements
            /\ cpp_capacity' = shrunk.capacity
            /\ cpp_ret' = [op |-> "pop", throws |-> "nothing", value |-> popped_value]
            /\ cpp_expected' = Last(cpp_shadow)
            /\ cpp_reallocated' = shrinks
            /\ cpp_shadow' = SubSeq(cpp_shadow, 1, Len(cpp_shadow) - 1)

cpp_pop ==
    IF cpp_is_empty THEN
        /\ cpp_ret' = [op |-> "pop", throws |-> "underflow_error"]
        /\ cpp_reallocated' = FALSE
        /\ UNCHANGED <<cpp_elements, cpp_capacity, cpp_top, cpp_shadow, cpp_expected>>
    ELSE
        LET popped_value == cpp_elements[cpp_top]
            top == cpp_top - 1
            cleared == [cpp_elements EXCEPT ![top + 1] = T_default]
            shrinks == top <= cpp_capacity \div 4
                          /\ cpp_capacity \div 2 >= INITIAL_CAPACITY
            shrunk == IF shrinks
                      THEN cpp_reallocate(cleared, top,
                                          Max(cpp_capacity \div 2, INITIAL_CAPACITY))
                      ELSE [elements |-> cleared, capacity |-> cpp_capacity]
        IN  /\ cpp_top' = top
            /\ cpp_elements' = shrunk.elements
            /\ cpp_capacity' = shrunk.capacity
            /\ cpp_ret' = [op |-> "pop", throws |-> "nothing", value |-> popped_value]
            /\ cpp_expected' = Last(cpp_shadow)
            /\ cpp_reallocated' = shrinks
            /\ cpp_shadow' = SubSeq(cpp_shadow, 1, Len(cpp_shadow) - 1)

CppPush ==
    /\ cpp_top < MaxDepth
    /\ \E item \in Items : cpp_push(item)
    /\ cpp_previous' = cpp_reallocated
    /\ UNCHANGED <<treeVars, cVars, ftaVars, goVars, changeVars>>

CppPop ==
    /\ cpp_pop
    /\ cpp_previous' = cpp_reallocated
    /\ UNCHANGED <<treeVars, cVars, ftaVars, goVars, changeVars>>

----------------------------------------------------------------------------
(* TypeScript: firstThenApply(items, predicate, consumer).                 *)

\* The longest array passed to firstThenApply.
MaxItems == 3

\* The element values: numbers, strings and booleans, each named by its
\* literal; and undefined.
JsValues == {"0", "1", "''", "'a'", "false", "true"}
undefined == "undefined"

\* The truthiness that the conditional operator tests.
ToBoolean(v) == v \notin {"0", "''", "false", "undefined"}

\* Array.prototype.find: the first element the callback accepts, or undefined.
RECURSIVE find(_, _)
find(items, predicate) ==
    IF items = <<>> THEN undefined
    ELSE IF predicate[Head(items)] THEN Head(items)
    ELSE find(Tail(items), predicate)

\* A consumer whose result tells which item it was applied to.
consumer(item) == "consumer(" \o item \o ")"

\* firstThenApply(items, predicate, consumer), for the consumer above.
firstThenApply(items, predicate) ==
    LET foundItem == find(items, predicate)
    IN  IF ToBoolean(foundItem) THEN consumer(foundItem) ELSE undefined

RECURSIVE ArraysUpTo(_)
ArraysUpTo(n) ==
    IF n = 0 THEN {<<>>}
    ELSE LET shorter == ArraysUpTo(n - 1)
         IN  shorter \cup {Append(a, v) : a \in shorter, v \in JsValues}

FtaInit ==
    /\ fta_items = <<>>
    /\ fta_predicate = [v \in JsValues |-> FALSE]
    /\ fta_result = "not called"

\* One call, on any array and any predicate.
FirstThenApply ==
    /\ fta_result = "not called"
    /\ \E items \in ArraysUpTo(MaxItems), predicate \in [JsValues -> BOOLEAN] :
          /\ fta_items' = items
          /\ fta_predicate' = predicate
          /\ fta_result' = firstThenApply(items, predicate)
    /\ UNCHANGED <<treeVars, cVars, cppVars, goVars, changeVars>>

----------------------------------------------------------------------------
(* Go: the restaurant.  Three cook goroutines receive orders from the      *)
(* buffered channel waiter and send each back on the channel of the order; *)
(* customer goroutines place orders until they have eaten their meals;     *)
(* main waits for the customers.  A step of a goroutine runs from one      *)
(* operation on shared state (channel, atomic counter, WaitGroup) up to    *)
(* the next, through the local steps in between; do() only logs and       *)
(* sleeps.                                                                 *)

\* The number of customers main starts (the code starts the ten of
\* CustomerNames) and the number of meals after which a customer goes home
\* (the code's loop runs while mealsEaten < 5).
MaxCustomers == 4
MaxMeals == 1

\* The number of orders abandoned after a timeout in one behaviour.
MaxAbandoned == 1

WaiterCapacity == 3

CustomerNames == <<"Ani", "Bai", "Cat", "Dao", "Eve", "Fay", "Gus", "Hua", "Iza", "Jai">>
Customers == {CustomerNames[i] : i \in 1..MaxCustomers}
Cooks == {"Remy", "Colette", "Linguini"}

\* A nil *Order.
NoOrder == [id |-> 0, customer |-> "", reply |-> 0, preparedBy |-> ""]

\* &Order{id: id, customer: name, reply: make(chan *Order)}.  Every order has
\* a channel of its own, here named by the id of the order it was made for.
NewOrder(id, name) == [id |-> id, customer |-> name, reply |-> id, preparedBy |-> ""]

GoInit ==
    /\ waiter = <<>>
    /\ orderCounter = 0
    /\ customer_pc = [c \in Customers |-> "loop"]
    /\ mealsEaten = [c \in Customers |-> 0]
    /\ order = [c \in Customers |-> NoOrder]
    /\ cooking = [k \in Cooks |-> NoOrder]
    /\ wg = MaxCustomers
    /\ main_pc = "wg.Wait"
    /\ issued = <<>>
    /\ abandoned = {}

\* A wrong counter that loses every addition after the first.
Add_lossy(counter) == Max(counter, 1)

\* orderCounter.Add(1): the new value of the counter, which is also returned.
Add(counter) == counter + 1

\* A wrong cook that receives an order and forgets it.
Take_drop(k) ==
    /\ cooking[k] = NoOrder
    /\ waiter # <<>>
    /\ waiter' = Tail(waiter)
    /\ UNCHANGED <<orderCounter, customer_pc, mealsEaten, order, cooking, wg, main_pc,
                   issued, abandoned>>

\* cook: order := <-waiter, then do(10, ...cooking...) and
\* order.preparedBy = name, up to the send of the reply.
Take(k) ==
    /\ cooking[k] = NoOrder
    /\ waiter # <<>>
    /\ cooking' = [cooking EXCEPT ![k] = [Head(waiter) EXCEPT !.preparedBy = k]]
    /\ waiter' = Tail(waiter)
    /\ UNCHANGED <<orderCounter, customer_pc, mealsEaten, order, wg, main_pc,
                   issued, abandoned>>

\* A wrong reply that any customer waiting for a meal may receive, as if
\* the orders shared one reply channel.
Reply_shared(k, c) ==
    /\ cooking[k] # NoOrder
    /\ customer_pc[c] = "<-order.reply"
    /\ customer_pc' = [customer_pc EXCEPT ![c] = "loop"]
    /\ mealsEaten' = [mealsEaten EXCEPT ![c] = @ + 1]
    /\ order' = [order EXCEPT ![c] = NoOrder]
    /\ cooking' = [cooking EXCEPT ![k] = NoOrder]
    /\ UNCHANGED <<waiter, orderCounter, wg, main_pc, issued, abandoned>>

\* cook: order.reply <- order, an unbuffered send that proceeds when a
\* customer is receiving on that channel; the customer: meal := <-order.reply,
\* then do(2, ...eating...), mealsEaten++ and the end of the iteration.
Reply(k, c) ==
    /\ cooking[k] # NoOrder
    /\ customer_pc[c] = "<-order.reply"
    /\ order[c].reply = cooking[k].reply
    /\ customer_pc' = [customer_pc EXCEPT ![c] = "loop"]
    /\ mealsEaten' = [mealsEaten EXCEPT ![c] = @ + 1]
    /\ order' = [order EXCEPT ![c] = NoOrder]
    /\ cooking' = [cooking EXCEPT ![k] = NoOrder]
    /\ UNCHANGED <<waiter, orderCounter, wg, main_pc, issued, abandoned>>

\* customer: the loop test; then either the new order with its id from the
\* counter, or "is going home" and the deferred wg.Done().
Loop(c) ==
    /\ customer_pc[c] = "loop"
    /\ IF mealsEaten[c] < MaxMeals THEN
           /\ orderCounter' = Add(orderCounter)
           /\ order' = [order EXCEPT ![c] = NewOrder(orderCounter', c)]
           /\ issued' = Append(issued, orderCounter')
           /\ customer_pc' = [customer_pc EXCEPT ![c] = "select"]
           /\ UNCHANGED wg
       ELSE
           /\ customer_pc' = [customer_pc EXCEPT ![c] = "home"]
           /\ wg' = wg - 1
           /\ UNCHANGED <<orderCounter, order, issued>>
    /\ UNCHANGED <<waiter, mealsEaten, cooking, main_pc, abandoned>>

\* customer: case waiter <- order, when the channel has room.
Place(c) ==
    /\ customer_pc[c] \in {"select", "blocked"}
    /\ Len(waiter) < WaiterCapacity
    /\ waiter' = Append(waiter, order[c])
    /\ customer_pc' = [customer_pc EXCEPT ![c] = "<-order.reply"]
    /\ UNCHANGED <<orderCounter, mealsEaten, order, cooking, wg, main_pc, issued,
                   abandoned>>

\* customer: the select finds the waiter full and blocks, with the timer of
\* time.After running.
Block(c) ==
    /\ customer_pc[c] = "select"
    /\ Len(waiter) >= WaiterCapacity
    /\ customer_pc' = [customer_pc EXCEPT ![c] = "blocked"]
    /\ UNCHANGED <<waiter, orderCounter, mealsEaten, order, cooking, wg, main_pc,
                   issued, abandoned>>

\* A wrong timeout that also counts the abandoned order as a meal.
Timeout_counted(c) ==
    /\ customer_pc[c] = "blocked"
    /\ Cardinality(abandoned) < MaxAbandoned
    /\ abandoned' = abandoned \cup {order[c].id}
    /\ order' = [order EXCEPT ![c] = NoOrder]
    /\ mealsEaten' = [mealsEaten EXCEPT ![c] = @ + 1]
    /\ customer_pc' = [customer_pc EXCEPT ![c] = "loop"]
    /\ UNCHANGED <<waiter, orderCounter, cooking, wg, main_pc, issued>>

\* A wrong timeout that also fires while the customer waits for the meal of
\* an order it has placed.
Timeout_placed(c) ==
    /\ customer_pc[c] \in {"blocked", "<-order.reply"}
    /\ Cardinality(abandoned) < MaxAbandoned
    /\ abandoned' = abandoned \cup {order[c].id}
    /\ order' = [order EXCEPT ![c] = NoOrder]
    /\ customer_pc' = [customer_pc EXCEPT ![c] = "loop"]
    /\ UNCHANGED <<waiter, orderCounter, mealsEaten, cooking, wg, main_pc, issued>>

\* customer: case <-time.After(7 * time.Second), then do(5, ...abandoning...)
\* and the end of the iteration.  The timer is started when the select is
\* entered, so it fires only in a select that has blocked.
Timeout(c) ==
    /\ customer_pc[c] = "blocked"
    /\ Cardinality(abandoned) < MaxAbandoned
    /\ abandoned' = abandoned \cup {order[c].id}
    /\ order' = [order EXCEPT ![c] = NoOrder]
    /\ customer_pc' = [customer_pc EXCEPT ![c] = "loop"]
    /\ UNCHANGED <<waiter, orderCounter, mealsEaten, cooking, wg, main_pc, issued>>

\* main: wg.Wait() returns when the counter is zero; "Restaurant closing".
Close ==
    /\ main_pc = "wg.Wait"
    /\ wg = 0
    /\ main_pc' = "closed"
    /\ UNCHANGED <<waiter, orderCounter, customer_pc, mealsEaten, order, cooking,
                   wg, issued, abandoned>>

----------------------------------------------------------------------------
(* change(amount) in TypeScript, JavaScript, Haskell and Lua: the counts   *)
(* of the coins of 25, 10, 5 and 1 for an amount.  The amounts are         *)
(* integers; counts is a function from denomination to count.              *)

\* The largest amount, and the least is its negative.
MaxAmount == 100

denominations == <<25, 10, 5, 1>>

\* What a call gives: the counts, or the error it signals (TypeScript and
\* JavaScript throw, Haskell returns Left, Lua calls error) and no counts.
Counts(counts) == [ok |-> TRUE, counts |-> counts, error |-> ""]
Error(error) == [ok |-> FALSE, counts |-> <<>>, error |-> error]

\* The loop over the denominations of TypeScript, JavaScript and Lua, from
\* the i-th denomination on: counts[denomination] = remaining / denomination
\* (a quotient without fraction), then remaining %= denomination.
RECURSIVE forDenominations(_, _, _)
forDenominations(i, remaining, counts) ==
    IF i > Len(denominations) THEN counts
    ELSE LET denomination == denominations[i]
         IN  forDenominations(i + 1, remaining % denomination,
                              (denomination :> remaining \div denomination) @@ counts)

\* A wrong loop that rounds the quotient to the nearest integer.
RECURSIVE forDenominations_round(_, _, _)
forDenominations_round(i, remaining, counts) ==
    IF i > Len(denominations) THEN counts
    ELSE LET denomination == denominations[i]
         IN  forDenominations_round(i + 1, remaining % denomination,
                 (denomination :> (2 * remaining + denomination) \div (2 * denomination))
                     @@ counts)

ts_change(amount) ==
    IF amount < 0 THEN Error("RangeError")
    ELSE Counts(forDenominations(1, amount, <<>>))

\* A wrong change that takes Math.round for Math.floor.
js_change_round(amount) ==
    IF amount < 0 THEN Error("RangeError")
    ELSE Counts(forDenominations_round(1, amount, <<>>))

js_change(amount) ==
    IF amount < 0 THEN Error("RangeError")
    ELSE Counts(forDenominations(1, amount, <<>>))

lua_change(amount) ==
    IF amount < 0 THEN Error("Amount cannot be negative")
    ELSE Counts(forDenominations(1, amount, <<>>))

\* Haskell: changeHelper (d:ds) remaining counts, with divMod and Map.insert.
RECURSIVE changeHelper(_, _, _)
changeHelper(ds, remaining, counts) ==
    IF ds = <<>> THEN counts
    ELSE LET d == Head(ds)
             count == remaining \div d
             newRemaining == remaining % d
             newCounts == (d :> count) @@ counts
         IN  changeHelper(Tail(ds), newRemaining, newCounts)

hs_change(amount) ==
    IF amount < 0 THEN Error("amount cannot be negative")
    ELSE Counts(changeHelper(denominations, amount, <<>>))

ChangeInit ==
    /\ change_amount = 0
    /\ change_results = <<>>

\* One call of change in each language, on any amount.
Change ==
    /\ change_results = <<>>
    /\ \E amount \in (0 - MaxAmount)..MaxAmount :
          /\ change_amount' = amount
          /\ change_results' = << [ts  |-> ts_change(amount),
                                   js  |-> js_change(amount),
                                   hs  |-> hs_change(amount),
                                   lua |-> lua_change(amount)] >>
    /\ UNCHANGED <<treeVars, cVars, cppVars, ftaVars, goVars>>

----------------------------------------------------------------------------
(* The trees' state machine: the caller holds every version it has built   *)
(* and inserts a value into any of them, in every language variant alike.  *)

TreeInit ==
    /\ heap = <<EmptyCell>>
    /\ ts = <<1>>
    /\ ml = <<ml_Empty>>
    /\ hs = <<hs_Empty>>
    /\ java = <<java_Empty>>
    /\ kt = <<kt_Empty>>
    /\ swift = <<swift_empty>>
    /\ hist = << <<>> >>
    /\ parent = <<0>>

Insert(i, value) ==
    /\ Len(ts) < MaxVersions
    /\ LET r == ts_insert(heap, ts[i], value)
       IN  /\ heap' = r.heap
           /\ ts' = Append(ts, r.ref)
    /\ ml' = Append(ml, ml_insert(value, ml[i]))
    /\ hs' = Append(hs, hs_insert(value, hs[i]))
    /\ java' = Append(java, java_insert(java[i], value))
    /\ kt' = Append(kt, kt_insert(kt[i], value))
    /\ swift' = Append(swift, swift_insert(swift[i], value))
    /\ hist' = Append(hist, Append(hist[i], value))
    /\ parent' = Append(parent, i)

TreeNext ==
    /\ \E i \in 1..Len(ts), value \in Values : Insert(i, value)
    /\ UNCHANGED <<cVars, cppVars, ftaVars, goVars, changeVars>>

Init == TreeInit /\ CInit /\ CppInit /\ FtaInit /\ GoInit /\ ChangeInit

\* The trees alone, the C stack alone, the C++ stack alone, firstThenApply
\* alone.
SpecTree == Init /\ [][TreeNext]_vars

CNext == CPush \/ CPop
SpecC == Init /\ [][CNext]_vars

CppNext == CppPush \/ CppPop
SpecCpp == Init /\ [][CppNext]_vars

FtaNext == FirstThenApply
SpecFta == Init /\ [][FtaNext]_vars

GoNext ==
    /\ \/ \E k \in Cooks : Take(k)
       \/ \E k \in Cooks, c \in Customers : Reply(k, c)
       \/ \E c \in Customers : Loop(c)
       \/ \E c \in Customers : Place(c)
       \/ \E c \in Customers : Block(c)
       \/ \E c \in Customers : Timeout(c)
       \/ Close
    /\ UNCHANGED <<treeVars, cVars, cppVars, ftaVars, changeVars>>
SpecGo == Init /\ [][GoNext]_vars

ChangeNext == Change
SpecChange == Init /\ [][ChangeNext]_vars

\* The scheduler runs every goroutine that can take a step, and wakes main
\* when the WaitGroup reaches zero.  No fairness is asked of the timer.
CookStep(k) == (Take(k) \/ \E c \in Customers : Reply(k, c))
                  /\ UNCHANGED <<treeVars, cVars, cppVars, ftaVars, changeVars>>
CustomerStep(c) == (Loop(c) \/ Place(c) \/ Block(c))
                      /\ UNCHANGED <<treeVars, cVars, cppVars, ftaVars, changeVars>>
MainStep == Close /\ UNCHANGED <<treeVars, cVars, cppVars, ftaVars, changeVars>>
SpecGoFair ==
    /\ Init
    /\ [][GoNext]_vars
    /\ \A k \in Cooks : WF_vars(CookStep(k))
    /\ \A c \in Customers : WF_vars(CustomerStep(c))
    /\ WF_vars(MainStep)

----------------------------------------------------------------------------
(* What a caller can observe of a tree version.                            *)

Versions == 1..Len(ts)

ts_observe(h, r) ==
    [size     |-> ts_size(h, r),
     contains |-> [x \in Values |-> ts_contains(h, r, x)],
     inorder  |-> ts_inorder(h, r),
     string   |-> ts_toString(h, r)]

ml_observe(tree) ==
    [size     |-> ml_size(tree),
     contains |-> [x \in Values |-> ml_contains(x, tree)],
     inorder  |-> ml_inorder(tree)]

\* Version k was derived by inserting a value its parent did not hold.
FreshInsert(k) ==
    /\ parent[k] > 0
    /\ Last(hist[k]) \notin SeqToSet(hist[parent[k]])

\* Version k was derived by inserting a value its parent already held.
RepeatedInsert(k) ==
    /\ parent[k] > 0
    /\ Last(hist[k]) \in SeqToSet(hist[parent[k]])

----------------------------------------------------------------------------
\* C1: persistence.  An insert into a version T leaves every version the
\* caller holds, T included, as it was: size, contains of every value,
\* inorder and toString of each are the same after the step as before it
\* (TypeScript, OCaml); and when the inserted value was absent from T the new
\* version contains it and has the size of T plus one.
C1_Persistence ==
    [][ /\ \A i \in Versions :
              /\ ts_observe(heap', ts'[i]) = ts_observe(heap, ts[i])
              /\ ml_observe(ml'[i]) = ml_observe(ml[i])
        /\ LET k == Len(ts')
               T == parent'[k]
               v == Last(hist'[k])
           IN  /\ ~ts_contains(heap, ts[T], v) =>
                      /\ ts_contains(heap', ts'[k], v)
                      /\ ts_size(heap', ts'[k]) = ts_size(heap, ts[T]) + 1
               /\ ~ml_contains(v, ml[T]) =>
                      /\ ml_contains(v, ml'[k])
                      /\ ml_size(ml'[k]) = ml_size(ml[T]) + 1
      ]_vars

\* A version of two or more values was derived from a non-empty version by
\* inserting an absent value, and both are held.
C1_Witness ==
    \E k \in Versions :
        /\ FreshInsert(k)
        /\ ts_size(heap, ts[parent[k]]) >= 2
        /\ ts_size(heap, ts[k]) = ts_size(heap, ts[parent[k]]) + 1
        /\ ~ts_contains(heap, ts[parent[k]], Last(hist[k]))
        /\ ts_contains(heap, ts[k], Last(hist[k]))

\* C2: inserting pairwise distinct values into the empty tree, in any order,
\* gives a tree whose size is the number of values and whose inorder is
\* those values in strictly ascending order (TypeScript, Haskell).
C2_SizeAndInorder ==
    \A i \in Versions :
        Distinct(hist[i]) =>
            /\ ts_size(heap, ts[i]) = Len(hist[i])
            /\ ts_inorder(heap, ts[i]) = Ascending(SeqToSet(hist[i]))
            /\ StrictlyAscending(ts_inorder(heap, ts[i]))
            /\ hs_size(hs[i]) = Len(hist[i])
            /\ hs_inorder(hs[i]) = Ascending(SeqToSet(hist[i]))
            /\ StrictlyAscending(hs_inorder(hs[i]))

\* Four distinct values were inserted in an order that is not ascending.
C2_Witness ==
    \E i \in Versions :
        /\ Distinct(hist[i])
        /\ Len(hist[i]) = 4
        /\ ~StrictlyAscending(hist[i])
        /\ ts_size(heap, ts[i]) = 4

\* C3: idempotence.  Inserting a value that a tree contains gives a tree of
\* the same size, the same inorder and the same rendered form (TypeScript,
\* OCaml, Haskell); so the size of every tree is the number of distinct
\* values inserted.
C3_Idempotent ==
    \A k \in Versions :
        /\ (parent[k] > 0 /\ ts_contains(heap, ts[parent[k]], Last(hist[k]))) =>
              /\ ts_size(heap, ts[k]) = ts_size(heap, ts[parent[k]])
              /\ ts_inorder(heap, ts[k]) = ts_inorder(heap, ts[parent[k]])
              /\ ts_toString(heap, ts[k]) = ts_toString(heap, ts[parent[k]])
        /\ (parent[k] > 0 /\ ml_contains(Last(hist[k]), ml[parent[k]])) =>
              /\ ml_size(ml[k]) = ml_size(ml[parent[k]])
              /\ ml_inorder(ml[k]) = ml_inorder(ml[parent[k]])
        /\ (parent[k] > 0 /\ hs_contains(Last(hist[k]), hs[parent[k]])) =>
              /\ hs_size(hs[k]) = hs_size(hs[parent[k]])
              /\ hs_inorder(hs[k]) = hs_inorder(hs[parent[k]])
              /\ hs_show(hs[k]) = hs_show(hs[parent[k]])
        /\ ts_size(heap, ts[k]) = Cardinality(SeqToSet(hist[k]))
        /\ ml_size(ml[k]) = Cardinality(SeqToSet(hist[k]))
        /\ hs_size(hs[k]) = Cardinality(SeqToSet(hist[k]))

\* A value held below the root of a tree of three values was inserted again.
C3_Witness ==
    \E k \in Versions :
        /\ RepeatedInsert(k)
        /\ ml_size(ml[parent[k]]) = 3
        /\ ml_contains(Last(hist[k]), ml[parent[k]])
        /\ Last(hist[k]) # Head(hist[k])
        /\ hs_size(hs[k]) = 3

\* The nodes of a TypeScript tree: the references reachable from r that are
\* not Empty.
RECURSIVE ts_nodes(_, _)
ts_nodes(h, r) ==
    IF ts_isEmpty(h, r) THEN {}
    ELSE {r} \cup ts_nodes(h, h[r].left) \cup ts_nodes(h, h[r].right)

\* The subtrees of a Swift tree that are nodes.
RECURSIVE swift_nodes(_)
swift_nodes(t) ==
    IF t = swift_empty THEN {}
    ELSE {t} \cup swift_nodes(t[1]) \cup swift_nodes(t[3])

RECURSIVE swift_values(_)
swift_values(t) ==
    IF t = swift_empty THEN {}
    ELSE swift_values(t[1]) \cup {t[2]} \cup swift_values(t[3])

\* C4: the search-tree ordering.  In every tree built from Empty by inserts,
\* repeated values or not, every node at every depth has only smaller values
\* in its left subtree and only greater values in its right subtree
\* (TypeScript, Swift).
C4_Ordered ==
    \A i \in Versions :
        /\ \A n \in ts_nodes(heap, ts[i]) :
              /\ \A x \in SeqToSet(ts_inorder(heap, heap[n].left)) : x < heap[n].value
              /\ \A x \in SeqToSet(ts_inorder(heap, heap[n].right)) : x > heap[n].value
        /\ \A n \in swift_nodes(swift[i]) :
              /\ \A x \in swift_values(n[1]) : x < n[2]
              /\ \A x \in swift_values(n[3]) : x > n[2]

\* A tree of depth three or more was built by inserts that repeat a value.
C4_Witness ==
    \E i \in Versions :
        /\ ~Distinct(hist[i])
        /\ swift_size(swift[i]) = 3
        /\ \E n \in swift_nodes(swift[i]) :
              n[1] # swift_empty /\ n[1][3] # swift_empty
        /\ \E n \in ts_nodes(heap, ts[i]) :
              /\ ~ts_isEmpty(heap, heap[n].left)
              /\ ~ts_isEmpty(heap, heap[heap[n].left].right)

\* How often a value occurs in a Java or Kotlin tree.
RECURSIVE java_count(_, _)
java_count(t, value) ==
    IF t = java_Empty THEN 0
    ELSE (IF t[1] = value THEN 1 ELSE 0)
            + java_count(t[2], value) + java_count(t[3], value)

\* C5: in the Java and the Kotlin trees inserting a value the tree contains
\* changes neither size() nor toString(), and no value occurs twice in a
\* tree built from Empty by inserts.
C5_DuplicatesDropped ==
    \A k \in Versions :
        /\ (parent[k] > 0 /\ java_contains(java[parent[k]], Last(hist[k]))) =>
              /\ java_size(java[k]) = java_size(java[parent[k]])
              /\ java_toString(java[k]) = java_toString(java[parent[k]])
        /\ (parent[k] > 0 /\ kt_contains(kt[parent[k]], Last(hist[k]))) =>
              /\ kt_size(kt[k]) = kt_size(kt[parent[k]])
              /\ kt_toString(kt[k]) = kt_toString(kt[parent[k]])
        /\ \A x \in Values : java_count(java[k], x) <= 1 /\ java_count(kt[k], x) <= 1

\* C6: membership.  contains(x) of a tree built from Empty by inserts is
\* true exactly for the values inserted, and false for every x on Empty
\* (TypeScript, Java, Kotlin).
C6_Membership ==
    /\ \A i \in Versions : \A x \in Values :
          /\ ts_contains(heap, ts[i], x) <=> x \in SeqToSet(hist[i])
          /\ java_contains(java[i], x) <=> x \in SeqToSet(hist[i])
          /\ kt_contains(kt[i], x) <=> x \in SeqToSet(hist[i])
    /\ \A x \in Values :
          /\ ~ts_contains(heap, 1, x)
          /\ ~java_contains(java_Empty, x)
          /\ ~kt_contains(kt_Empty, x)

\* A tree holds three values, one of them inserted twice, on both sides of
\* the root, and another value is absent.
C6_Witness ==
    \E i \in Versions :
        /\ Len(hist[i]) = 4
        /\ Cardinality(SeqToSet(hist[i])) = 3
        /\ \E x, y \in SeqToSet(hist[i]) : x < Head(hist[i]) /\ Head(hist[i]) < y
        /\ \E x \in Values : ~kt_contains(kt[i], x) /\ ~ts_contains(heap, ts[i], x)
        /\ kt_contains(kt[i], Last(hist[i]))

\* The rendering the trees are meant to have: "()" for Empty, and for a node
\* its value between the renderings of its children, in parentheses, where
\* an Empty child contributes nothing.
RECURSIVE Rendering(_)
Rendering(t) ==
    IF t = <<>> THEN "()"
    ELSE "(" \o (IF t[2] = <<>> THEN "" ELSE Rendering(t[2]))
             \o Name(t[1])
             \o (IF t[3] = <<>> THEN "" ELSE Rendering(t[3])) \o ")"

\* The shape of a TypeScript tree as <<value, left, right>>.
RECURSIVE ts_shape(_, _)
ts_shape(h, r) ==
    IF ts_isEmpty(h, r) THEN <<>>
    ELSE <<h[r].value, ts_shape(h, h[r].left), ts_shape(h, h[r].right)>>

\* C7: rendering.  Empty renders as "()" and a node as "(" l v r ")" where l
\* and r are the renderings of the children, empty when the child is Empty;
\* m alone renders as "(m)" and m, a, z inserted in this order render as
\* "((a)m(z))" (TypeScript, Java, Kotlin).
C7_Rendering ==
    /\ ts_toString(heap, 1) = "()"
    /\ java_toString(java_Empty) = "()"
    /\ kt_toString(kt_Empty) = "()"
    /\ \A i \in Versions :
          /\ ts_toString(heap, ts[i]) = Rendering(ts_shape(heap, ts[i]))
          /\ java_toString(java[i]) = Rendering(java[i])
          /\ kt_toString(kt[i]) = Rendering(kt[i])
          /\ hist[i] = <<ValM>> =>
                /\ ts_toString(heap, ts[i]) = "(m)"
                /\ java_toString(java[i]) = "(m)"
                /\ kt_toString(kt[i]) = "(m)"
          /\ hist[i] = <<ValM, ValA, ValZ>> =>
                /\ ts_toString(heap, ts[i]) = "((a)m(z))"
                /\ java_toString(java[i]) = "((a)m(z))"
                /\ kt_toString(kt[i]) = "((a)m(z))"

\* m, a and z have been inserted in this order, and the single-node tree of
\* m is held too.
C7_Witness ==
    \E i, j \in Versions :
        /\ hist[i] = <<ValM, ValA, ValZ>>
        /\ hist[j] = <<ValM>>
        /\ ts_size(heap, ts[i]) = 3
        /\ ts_toString(heap, ts[j]) = "(m)"

\* The shape of a Swift tree as <<value, left, right>>.
RECURSIVE swift_shape(_)
swift_shape(t) ==
    IF t = swift_empty THEN <<>>
    ELSE <<t[2], swift_shape(t[1]), swift_shape(t[3])>>

\* C8: the description of a Swift tree omits the parentheses of Empty
\* children: an Empty child contributes the empty string, so the single-node
\* tree of m renders as "(m)".
C8_SwiftOmitsEmpty ==
    \A i \in Versions :
        /\ swift_description(swift[i]) = Rendering(swift_shape(swift[i]))
        /\ hist[i] = <<ValM>> => swift_description(swift[i]) = "(m)"

----------------------------------------------------------------------------
\* C9: LIFO order of the C stack.  For n pushes of strings below the size
\* limit on a fresh stack followed by pops, every push returns success and every pop returns success with the
\* pushed strings in the reverse of push order.
C9_CLifo ==
    \A n \in 0..Len(c_log) :
        ( /\ \A i \in 1..n : c_log[i].op = "push" /\ c_log[i].item \in Items
          /\ \A i \in (n + 1)..Len(c_log) : c_log[i].op = "pop"
          /\ Len(c_log) - n <= n )
        => /\ \A i \in 1..Len(c_log) : c_log[i].code = "success"
           /\ \A i \in (n + 1)..Len(c_log) :
                  c_log[i].string = c_log[2 * n - i + 1].item

\* C10: LIFO order of the C++ stack under any interleaving of push and pop
\* that never pops an empty stack: every pop returns the newest item not yet
\* popped, and the buffer holds the items not yet popped in push order, also
\* after reallocate has copied them to a new buffer.
C10_CppLifo ==
    /\ (cpp_ret.op = "pop" /\ cpp_ret.throws = "nothing") =>
           cpp_ret.value = cpp_expected
    /\ cpp_top = Len(cpp_shadow)
    /\ \A i \in 1..cpp_top : cpp_elements[i] = cpp_shadow[i]

\* A pop has just shrunk the buffer of a stack that had grown, and items of
\* both values are left.
C10_Witness ==
    /\ cpp_ret.op = "pop"
    /\ cpp_ret.throws = "nothing"
    /\ cpp_reallocated
    /\ cpp_capacity = INITIAL_CAPACITY
    /\ cpp_top = INITIAL_CAPACITY \div 2
    /\ SeqToSet(cpp_shadow) = Items
    /\ cpp_ret.value = cpp_expected

C12_CppCapacity ==
    /\ INITIAL_CAPACITY <= cpp_capacity
    /\ cpp_capacity <= MAX_CAPACITY
    /\ 0 <= cpp_top
    /\ cpp_top <= cpp_capacity
    /\ Len(cpp_elements) = cpp_capacity

\* A push has just grown the buffer to hold one item more than it could.
C12_Witness ==
    /\ cpp_ret.op = "push"
    /\ cpp_reallocated
    /\ cpp_capacity = 2 * INITIAL_CAPACITY
    /\ cpp_top = INITIAL_CAPACITY + 1

\* The calls so far are pushes of strings below the size limit, and no more
\* of them than MAX_CAPACITY.
OnlyPushes ==
    /\ \A i \in 1..Len(c_log) : c_log[i].op = "push" /\ c_log[i].item \in Items
    /\ Len(c_log) <= MAX_CAPACITY

\* C13: stack full.  Every push onto an empty stack succeeds until the length
\* is MAX_CAPACITY, and a push is rejected as full only at that length,
\* leaving length, capacity and elements as they are (C: stack_full; C++:
\* overflow_error).
C13_StackFull ==
    /\ OnlyPushes =>
          /\ \A i \in 1..Len(c_log) : c_log[i].code = "success"
          /\ c_size = Len(c_log)
    /\ \A i \in 1..Len(c_log) :
          (c_log[i].op = "push" /\ c_log[i].code = "stack_full") => c_size = MAX_CAPACITY
    /\ (cpp_ret.op = "push" /\ cpp_ret.throws = "overflow_error") =>
          cpp_size = MAX_CAPACITY

\* The first i calls were all pops, so call i was a pop of an empty stack.
PopOfEmpty(i) == \A j \in 1..i : c_log[j].op = "pop"

\* C14: stack empty.  pop on a stack of length 0 fails with the stack-empty
\* outcome (C: stack_empty and no string; C++: underflow_error) and leaves
\* top and capacity unchanged, so that a following push succeeds.
C14_StackEmpty ==
    /\ \A i \in 1..Len(c_log) :
          PopOfEmpty(i) =>
              /\ c_log[i].code = "stack_empty"
              /\ c_log[i].string = NULL
              /\ (i < Len(c_log) /\ c_log[i + 1].op = "push"
                     /\ c_log[i + 1].item \in Items) =>
                    /\ c_log[i + 1].code = "success"
                    /\ (i + 1 = Len(c_log) => c_size = 1)
    /\ (Len(c_log) > 0 /\ PopOfEmpty(Len(c_log))) =>
          c_top = 0 /\ c_capacity = INITIAL_CAPACITY
    /\ (cpp_ret.op = "pop" /\ cpp_ret.throws = "underflow_error") => cpp_size = 0

\* C15: the element size limit of the C stack.  push of a string of
\* MAX_ELEMENT_BYTE_SIZE bytes or more on a stack that is not full returns
\* stack_element_too_large, stores nothing and leaves size(s) unchanged.
C15_ElementTooLarge ==
    /\ \A i \in 1..Len(c_log) :
          (c_log[i].op = "push" /\ c_log[i].item \in LongItems) =>
              c_log[i].code = "stack_element_too_large"
    /\ \A i \in 1..c_top : c_elements[i] \notin LongItems
    /\ (\A i \in 1..Len(c_log) : c_log[i].op = "push" /\ c_log[i].item \in LongItems)
          => c_size = 0

\* C16: ownership copy in the C stack.  A push stores a copy of the string,
\* so a pop immediately after a push succeeds and returns a string equal in
\* content to the one pushed.
C16_OwnershipCopy ==
    \A i \in 1..(Len(c_log) - 1) :
        (c_log[i].op = "push" /\ c_log[i].item \in Items /\ c_log[i + 1].op = "pop") =>
            /\ c_log[i + 1].code = "success"
            /\ c_log[i + 1].string = c_log[i].item

\* C17: is_full means the hard ceiling.  In every reachable state of the C
\* stack and of the C++ stack is_full is true exactly when the length is
\* MAX_CAPACITY, whatever the capacity of the buffer.
C17_IsFull ==
    /\ c_is_full <=> (c_size = MAX_CAPACITY)
    /\ cpp_is_full <=> (cpp_size = MAX_CAPACITY)

\* C18: a freshly created stack (C create(), C++ Stack()) has size 0, is
\* empty, is not full and has a buffer of INITIAL_CAPACITY = 16 slots.
C18_Fresh ==
    /\ c_log = <<>> =>
          /\ c_size = 0
          /\ c_is_empty
          /\ ~c_is_full
          /\ c_capacity = 16
          /\ Len(c_elements) = 16
    /\ cpp_ret.op = "Stack" =>
          /\ cpp_size = 0
          /\ cpp_is_empty
          /\ ~cpp_is_full
          /\ cpp_capacity = 16
          /\ Len(cpp_elements) = 16

\* Both stacks have been created and nothing has been called on them.
C18_Witness ==
    /\ c_log = <<>>
    /\ cpp_ret.op = "Stack"
    /\ c_capacity = INITIAL_CAPACITY
    /\ cpp_capacity = INITIAL_CAPACITY

\* The positions of the items that satisfy the predicate of the last call.
Satisfying == {i \in 1..Len(fta_items) : fta_predicate[fta_items[i]]}

\* C19: firstThenApply returns the consumer applied to the first item that
\* satisfies the predicate, whatever value that item is, and undefined only
\* when no item satisfies the predicate.
C19_FirstThenApply ==
    fta_result # "not called" =>
        IF Satisfying # {}
        THEN LET first == CHOOSE i \in Satisfying : \A j \in Satisfying : i <= j
             IN  fta_result = consumer(fta_items[first])
        ELSE fta_result = undefined

\* The number of nodes on the search path for an absent value v in the tree
\* at r, from the root down to the Empty where v belongs.
RECURSIVE PathLength(_, _, _)
PathLength(h, r, v) ==
    IF ts_isEmpty(h, r) THEN 0
    ELSE IF v < h[r].value THEN 1 + PathLength(h, h[r].left, v)
    ELSE 1 + PathLength(h, h[r].right, v)

\* Along the search path for v the tree at new has a new object for each node
\* of the tree at old, with the same value and with the very same object as
\* the child off the path; where old ends, new has the node of v.
RECURSIVE SharedOffPath(_, _, _, _)
SharedOffPath(h, old, new, v) ==
    IF ts_isEmpty(h, old) THEN
        /\ ~ts_isEmpty(h, new)
        /\ h[new].value = v
        /\ ts_isEmpty(h, h[new].left)
        /\ ts_isEmpty(h, h[new].right)
    ELSE
        /\ ~ts_isEmpty(h, new)
        /\ new # old
        /\ h[new].value = h[old].value
        /\ IF v < h[old].value
           THEN /\ h[new].right = h[old].right
                /\ SharedOffPath(h, h[old].left, h[new].left, v)
           ELSE /\ h[new].left = h[old].left
                /\ SharedOffPath(h, h[old].right, h[new].right, v)

\* C20: structural sharing.  Inserting an absent value v into a non-empty
\* TypeScript tree T allocates new Node objects only along the search path
\* from the root to the place of v, one for each node of the path and one for
\* v; every subtree off that path is the same object in T and in T.insert(v),
\* and no object of T is written.
C20_StructuralSharing ==
    [][ LET k == Len(ts')
            T == parent'[k]
            v == Last(hist'[k])
        IN  (~ts_isEmpty(heap, ts[T]) /\ ~ts_contains(heap, ts[T], v)) =>
                /\ SharedOffPath(heap', ts[T], ts'[k], v)
                /\ Cardinality({r \in (Len(heap) + 1)..Len(heap') :
                                    heap'[r].kind = "Node"})
                       = PathLength(heap, ts[T], v) + 1
                /\ \A r \in 1..Len(heap) : heap'[r] = heap[r]
      ]_vars

\* An absent value was inserted below the root of a tree whose root has a
\* non-empty subtree on the other side, and that subtree is one object in
\* both versions.
C20_Witness ==
    \E k \in Versions :
        /\ FreshInsert(k)
        /\ ts_size(heap, ts[parent[k]]) >= 3
        /\ ts[k] # ts[parent[k]]
        /\ LET old == heap[ts[parent[k]]]
               new == heap[ts[k]]
           IN  /\ Last(hist[k]) < old.value
               /\ ~ts_isEmpty(heap, old.right)
               /\ new.right = old.right
               /\ new.left # old.left
               /\ ~ts_isEmpty(heap, old.left)

\* C21: the push step of the C stack.  Every push of a string below the size
\* limit on a stack of length below MAX_CAPACITY, with no allocation failing,
\* returns success, stores the string as the new top and makes size() one
\* more, whether or not the length equals the capacity of the buffer.
C21_CPushStep ==
    [][ ( /\ Len(c_log') = Len(c_log) + 1
          /\ Last(c_log').op = "push"
          /\ Last(c_log').item \in Items
          /\ c_size < MAX_CAPACITY
          /\ Last(c_log').code # "out_of_memory" )
        => /\ Last(c_log').code = "success"
           /\ c_top' = c_top + 1
           /\ c_elements'[c_top'] = Last(c_log').item
      ]_vars

C29_NoThrash == ~(cpp_previous /\ cpp_reallocated)

\* A push has just followed the pop that shrank the buffer, and has not grown
\* it.
C29_Witness ==
    /\ cpp_previous
    /\ ~cpp_reallocated
    /\ cpp_ret.op = "push"
    /\ cpp_ret.throws = "nothing"
    /\ cpp_capacity = INITIAL_CAPACITY
    /\ cpp_top = INITIAL_CAPACITY \div 2 + 1

\* Where the order with this id is: its places in the waiter channel, and
\* the cooks that hold it.
InWaiter(id) == {i \in 1..Len(waiter) : waiter[i].id = id}
Holding(id) == {k \in Cooks : cooking[k].id = id}

\* The customers that have an order of the current iteration.
Ordering == {c \in Customers : order[c] # NoOrder}

RECURSIVE SumOver(_, _)
SumOver(f, S) ==
    IF S = {} THEN 0
    ELSE LET x == CHOOSE y \in S : TRUE
         IN  f[x] + SumOver(f, S \ {x})

\* C24: the hand-off of an order.  An order that its customer has placed on
\* the waiter channel is in the channel once or with exactly one cook, never
\* both; the customer receives from the cook that holds its order, the order
\* received names this customer and this cook as preparedBy, and has the id
\* of the order the customer last placed; no other customer receives it.
C24_HandOff ==
    [][ \A c \in Customers :
          /\ customer_pc[c] = "<-order.reply" =>
                Cardinality(InWaiter(order[c].id))
                    + Cardinality(Holding(order[c].id)) = 1
          /\ (customer_pc[c] = "<-order.reply" /\ customer_pc'[c] # "<-order.reply") =>
                \E k \in Cooks :
                    /\ Holding(order[c].id) = {k}
                    /\ cooking[k].id = order[c].id
                    /\ cooking[k].customer = c
                    /\ cooking[k].preparedBy = k
                    /\ cooking[k].reply = order[c].reply
                    /\ cooking'[k] = NoOrder
                    /\ mealsEaten'[c] = mealsEaten[c] + 1
                    /\ \A d \in Customers \ {c} :
                          /\ customer_pc'[d] = customer_pc[d]
                          /\ mealsEaten'[d] = mealsEaten[d]
      ]_vars

\* One customer has eaten, a second waits for the meal a cook holds for it,
\* and the order of a third is in the waiter channel.
C24_Witness ==
    \E c, d, e \in Customers :
        /\ mealsEaten[c] = 1
        /\ customer_pc[d] = "<-order.reply"
        /\ \E k \in Cooks : cooking[k] = [order[d] EXCEPT !.preparedBy = k]
        /\ customer_pc[e] = "<-order.reply"
        /\ InWaiter(order[e].id) # {}

\* C25: the closing order.  A customer that has gone home has eaten exactly
\* its MaxMeals meals (5 in the code), each a cooked order: the orders created
\* are the meals eaten, the orders abandoned and the orders under way, so an
\* abandoned order is never counted as a meal; and main has closed the
\* restaurant only when every customer has gone home.
C25_ClosingOrder ==
    /\ \A c \in Customers : customer_pc[c] = "home" => mealsEaten[c] = MaxMeals
    /\ \A c \in Customers : mealsEaten[c] <= MaxMeals
    /\ SumOver(mealsEaten, Customers) + Cardinality(abandoned) + Cardinality(Ordering)
          = orderCounter
    /\ main_pc = "closed" => \A c \in Customers : customer_pc[c] = "home"
    /\ wg = Cardinality({c \in Customers : customer_pc[c] # "home"})

\* The restaurant has closed after an order was abandoned.
C25_Witness ==
    /\ main_pc = "closed"
    /\ abandoned # {}
    /\ \A c \in Customers : mealsEaten[c] = MaxMeals

\* The ids of the orders that exist: in the channel, with the cooks, with the
\* customers.
LiveIds ==
    {waiter[i].id : i \in 1..Len(waiter)}
        \cup {cooking[k].id : k \in {k \in Cooks : cooking[k] # NoOrder}}
        \cup {order[c].id : c \in Ordering}

\* C26: unique order ids.  In every interleaving of the customers no two
\* orders created, placed or abandoned, have the same id, and the ids issued
\* so far are exactly 1..N for the N orders created.
C26_UniqueIds ==
    /\ Len(issued) = orderCounter
    /\ \A i \in 1..Len(issued) : issued[i] = i
    /\ Distinct(issued)
    /\ \A c, d \in Ordering : c # d => order[c].id # order[d].id
    /\ LiveIds \cup abandoned \subseteq SeqToSet(issued)

\* Every order of the behaviour has been created, one was abandoned, and
\* orders of two customers exist at once.
C26_Witness ==
    /\ orderCounter = MaxCustomers * MaxMeals + MaxAbandoned
    /\ abandoned # {}
    /\ Cardinality(Ordering) >= 2

\* C28: abandoned orders are never cooked.  A customer that times out drops
\* an order that is not in the waiter channel and leaves the channel as it
\* is; no abandoned order is ever in the channel, with a cook, or with a
\* customer; and the channel never holds more than 3 orders.
C28_AbandonedNeverCooked ==
    [][ /\ \A id \in abandoned' :
              /\ InWaiter(id)' = {}
              /\ Holding(id)' = {}
              /\ \A c \in Customers : order'[c].id # id
        /\ abandoned' # abandoned =>
              /\ waiter' = waiter
              /\ cooking' = cooking
              /\ mealsEaten' = mealsEaten
              /\ \A id \in abandoned' \ abandoned :
                    InWaiter(id) = {} /\ Holding(id) = {}
        /\ Len(waiter) <= 3
        /\ Len(waiter') <= 3
      ]_vars

\* A customer has abandoned its order while the waiter channel holds three
\* orders.
C28_Witness ==
    /\ abandoned # {}
    /\ Len(waiter) = WaiterCapacity
    /\ \E c \in Customers : customer_pc[c] = "loop" /\ mealsEaten[c] = 0

\* Every customer is home, main has closed the restaurant, and no order is
\* left anywhere: none in the waiter channel, none with a cook, none with a
\* customer waiting for its reply.
AllServed ==
    /\ main_pc = "closed"
    /\ \A c \in Customers : customer_pc[c] = "home" /\ order[c] = NoOrder
    /\ \A k \in Cooks : cooking[k] = NoOrder
    /\ waiter = <<>>

\* C27: liveness of the restaurant under fair scheduling.  Eventually every
\* customer has gone home and the restaurant has closed, with every order the
\* waiter channel accepted cooked and delivered: no customer is left waiting
\* on its reply channel and no cook is left holding an order or sending one.
C27_Liveness == <>AllServed

\* The restaurant has closed after every order the bounds allow was created.
C27_Witness ==
    /\ AllServed
    /\ orderCounter = MaxCustomers * MaxMeals + MaxAbandoned

\* The coins of a way to pay an amount, and the least number of coins of any
\* way to pay it with coins of 25, 10, 5 and 1.
Coins(counts) == counts[25] + counts[10] + counts[5] + counts[1]
Paid(counts) == 25 * counts[25] + 10 * counts[10] + 5 * counts[5] + counts[1]
MinCoins(amount) ==
    LET ways == {w[1] + w[2] + w[3] + (amount - 25 * w[1] - 10 * w[2] - 5 * w[3]) :
                    w \in {v \in (0..(amount \div 25)) \X (0..(amount \div 10))
                                     \X (0..(amount \div 5)) :
                              25 * v[1] + 10 * v[2] + 5 * v[3] <= amount}}
    IN  CHOOSE m \in ways : \A w \in ways : m <= w

\* One result of change is right for the amount of the call.
ChangeRight(result) ==
    IF change_amount >= 0
    THEN /\ result.ok
         /\ DOMAIN result.counts = {25, 10, 5, 1}
         /\ \A d \in DOMAIN result.counts : result.counts[d] >= 0
         /\ Paid(result.counts) = change_amount
         /\ result.counts[10] <= 2
         /\ result.counts[5] <= 1
         /\ result.counts[1] <= 4
         /\ Coins(result.counts) = MinCoins(change_amount)
    ELSE /\ ~result.ok
         /\ result.error # ""
         /\ DOMAIN result.counts = {}

====
